---- MODULE Spec2Model ----
(***************************************************************************)
(* unicli: one command invocation against a control-plane store.           *)
(*                                                                         *)
(* An invocation runs a command's RunE: factory.Client(), then the         *)
(* command's validate, then its execute.  validate and execute issue API   *)
(* calls through the client one after the other; every call may fail.      *)
(* Each command is given by two operators, <cmd>Validate and <cmd>Execute, *)
(* that return the API calls the code issues (in order, when none of them  *)
(* fails in transport), the error the code returns on the data it read,    *)
(* and what it prints.                                                     *)
(***************************************************************************)
EXTENDS Integers, Sequences, FiniteSets, TLC

VARIABLES
    store,       \* the control-plane store (what List and Get read)
    store0,      \* the store as it was when the invocation began
    cmd,         \* the command invoked, with its flags and arguments
    pc,          \* position of the invocation in main/RunE/Factory.Client
    idx,         \* number of API calls already issued in the current step
    o,           \* the command's options struct (filled in by validate)
    steps,       \* RunE steps begun so far, in order
    results,     \* outcome of every finished step, in order
    calls,       \* API calls issued through the client, in order
    out,         \* what the command printed on success
    err,         \* the error RunE returned ("" is nil)
    printed,     \* what main printed
    exitCode,    \* process exit status (-1 while running)
    goroutines,  \* background goroutines started by Factory.Client
    synced,      \* the watch cache has started and synced
    waited,      \* WaitForCacheSync has returned
    client,      \* Factory.Client returned a client
    now,         \* time elapsed since RunE created its context
    pick,        \* the order in which this run iterates Go maps
    prev,        \* what the previous invocation of the same command returned
    tbl          \* the table the command printed: its headers and its rows

vars == <<store, store0, cmd, pc, idx, o, steps, results, calls, out, err,
          printed, exitCode, goroutines, synced, waited, client, now, pick,
          prev, tbl>>

(***************************************************************************)
(* Bounds of the model.                                                    *)
(***************************************************************************)
MaxClusters == 2
MaxIdentities == 2
\* the minute of context.WithTimeout, counted in periods of the poll ticker
TimeoutTicks == 2
\* ticks the model follows after the deadline has passed
LateTicks == 1

(***************************************************************************)
(* Program constants.                                                      *)
(***************************************************************************)
IdentityNamespace == "unikorn-identity"
RegionNamespace == "unikorn-region"
ClusterPrefix == "kubernetes-cluster-"
\* util.GenerateResourceID(): an ID no object of the store carries
NewID == "new-id"
\* the strings given to --role and --user, in the order slices.Sort puts them
StringOrder == <<"admin", "alice", "bob", "carol", "owner", "reader", "zoe">>

(***************************************************************************)
(* Helpers on sequences.                                                   *)
(***************************************************************************)
Range(s) == {s[i] : i \in 1..Len(s)}

RECURSIVE Concat(_)
Concat(ss) == IF ss = <<>> THEN <<>> ELSE Head(ss) \o Concat(Tail(ss))

\* slices.IndexFunc: index of the first element satisfying P, 0 for -1
IndexFunc(s, P(_)) ==
    IF \E i \in 1..Len(s) : P(s[i])
    THEN CHOOSE i \in 1..Len(s) : P(s[i]) /\ \A j \in 1..(i-1) : ~P(s[j])
    ELSE 0

IsPrefix(s, t) == Len(s) <= Len(t) /\ SubSeq(t, 1, Len(s)) = s

(***************************************************************************)
(* The API client.  A call is logged with its verb, kind and namespace;    *)
(* res is the result the store gives when the transport does not fail.     *)
(***************************************************************************)
ListCall(kind, ns) == [verb |-> "List", kind |-> kind, ns |-> ns, res |-> "ok"]
GetCall(kind, ns, found) ==
    [verb |-> "Get", kind |-> kind, ns |-> ns,
     res |-> IF found THEN "ok" ELSE "NotFound"]
CreateCall(kind, obj) ==
    [verb |-> "Create", kind |-> kind, ns |-> obj.ns, res |-> "ok", obj |-> obj]

\* client.List with ListOptions{Namespace, LabelSelector}; "" is all namespaces
List(items, ns, Sel(_)) ==
    SelectSeq(items, LAMBDA x : (ns = "" \/ x.ns = ns) /\ Sel(x))

All(x) == TRUE

\* client.Get with ObjectKey{Namespace, Name}: <<>> when not found
Get(items, ns, id) == List(items, ns, LAMBDA x : x.id = id)

\* what a phase of a command returns
Ret(cs, e, v) == [calls |-> cs, err |-> e, val |-> v]

(***************************************************************************)
(* pkg/util and pkg/flags                                                  *)
(***************************************************************************)
\* a lookup that takes the first of several organizations of the name
GetOrganizationFirst(s, namespace, organizationName) ==
    LET resources == List(s.organizations, namespace,
                          LAMBDA x : x.name = organizationName)
        cs == <<ListCall("Organization", namespace)>>
    IN  IF Len(resources) = 0 THEN Ret(cs, "validation: unable to find organization", <<>>)
        ELSE IF resources[1].statusNs = ""
             THEN Ret(cs, "validation: unable to find organization namespace", <<>>)
             ELSE Ret(cs, "", <<resources[1]>>)

GetOrganization(s, namespace, organizationName) ==
    LET resources == List(s.organizations, namespace,
                          LAMBDA x : x.name = organizationName)
        cs == <<ListCall("Organization", namespace)>>
    IN  IF Len(resources) # 1 THEN Ret(cs, "validation: unable to find organization", <<>>)
        ELSE IF resources[1].statusNs = ""
             THEN Ret(cs, "validation: unable to find organization namespace", <<>>)
             ELSE Ret(cs, "", <<resources[1]>>)

\* a lookup by name label alone, whatever the organization
GetProjectByNameOnly(s, organizationID, projectName) ==
    LET resources == List(s.projects, "", LAMBDA x : x.name = projectName)
        cs == <<ListCall("Project", "")>>
    IN  IF Len(resources) # 1 THEN Ret(cs, "validation: unable to find project", <<>>)
        ELSE IF resources[1].statusNs = ""
             THEN Ret(cs, "validation: unable to find project namespace", <<>>)
             ELSE Ret(cs, "", <<resources[1]>>)

GetProject(s, organizationID, projectName) ==
    LET resources == List(s.projects, "",
                          LAMBDA x : /\ x.name = projectName
                                     /\ (organizationID # "" => x.org = organizationID))
        cs == <<ListCall("Project", "")>>
    IN  IF Len(resources) # 1 THEN Ret(cs, "validation: unable to find project", <<>>)
        ELSE IF resources[1].statusNs = ""
             THEN Ret(cs, "validation: unable to find project namespace", <<>>)
             ELSE Ret(cs, "", <<resources[1]>>)

\* util.GetRegionByName: the region of the region namespace with that name label
GetRegionByName(s, namespace, regionName) ==
    LET resources == List(s.regions, namespace, LAMBDA x : x.name = regionName)
        cs == <<ListCall("Region", namespace)>>
    IN  IF Len(resources) # 1 THEN Ret(cs, "validation: unable to find region", <<>>)
        ELSE Ret(cs, "", <<resources[1]>>)

OrganizationFlagsValidate(s, c) ==
    IF c.organization = "" THEN Ret(<<>>, "", <<>>)
    ELSE GetOrganization(s, IdentityNamespace, c.organization)

ProjectFlagsValidate(s, c, Organization) ==
    IF c.project = "" THEN Ret(<<>>, "", <<>>)
    ELSE LET organizationID == IF Organization # <<>> THEN Organization[1].id ELSE ""
         IN  GetProject(s, organizationID, c.project)

RegionFlagsValidate(s, c) ==
    IF c.region = "" THEN Ret(<<>>, "", <<>>)
    ELSE GetRegionByName(s, RegionNamespace, c.region)

\* the options struct before validation
NoOptions == [organization |-> <<>>, project |-> <<>>, region |-> <<>>]

\* validators run in order; the first error is returned
ScopeValidate(s, c, withProject, withRegion) ==
    LET vo == OrganizationFlagsValidate(s, c)
        vp == IF withProject THEN ProjectFlagsValidate(s, c, vo.val)
              ELSE Ret(<<>>, "", <<>>)
        vr == IF withRegion THEN RegionFlagsValidate(s, c) ELSE Ret(<<>>, "", <<>>)
    IN  IF vo.err # "" THEN Ret(vo.calls, vo.err, NoOptions)
        ELSE IF vp.err # "" THEN Ret(vo.calls \o vp.calls, vp.err, NoOptions)
        ELSE IF vr.err # "" THEN Ret(vo.calls \o vp.calls \o vr.calls, vr.err, NoOptions)
        ELSE Ret(vo.calls \o vp.calls \o vr.calls, "",
                 [organization |-> vo.val, project |-> vp.val, region |-> vr.val])

\* map[id]name built by ranging over a list: the last entry of an id wins
NameMap(items) ==
    [id \in {x.id : x \in Range(items)} |->
        LET i == CHOOSE i \in 1..Len(items) :
                    /\ items[i].id = id
                    /\ \A j \in (i+1)..Len(items) : items[j].id # id
        IN  items[i].name]

CreateOrganizationNameMap(s, namespace) ==
    Ret(<<ListCall("Organization", namespace)>>, "",
        NameMap(List(s.organizations, namespace, All)))

CreateProjectNameMap(s) ==
    Ret(<<ListCall("Project", "")>>, "", NameMap(List(s.projects, "", All)))

CreateKubernetesClusterNameMap(s, organizationID, projectID) ==
    Ret(<<ListCall("KubernetesCluster", "")>>, "",
        NameMap(List(s.clusters, "",
                     LAMBDA x : /\ (organizationID # "" => x.org = organizationID)
                                /\ (projectID # "" => x.project = projectID))))

\* m[id] of a Go map: "" when the key is absent
Lookup(m, id) == IF id \in DOMAIN m THEN m[id] ELSE ""

\* name := m[id] without the fallback
NameOnly(m, id) == Lookup(m, id)

\* name := m[id]; if name == "" { name = id }
NameOrID(m, id) == IF Lookup(m, id) = "" THEN id ELSE Lookup(m, id)

\* labels.Set built from the validated organization and project flags
ScopeSelector(opts, x) ==
    /\ (opts.organization # <<>> => x.org = opts.organization[1].id)
    /\ (opts.project # <<>> => x.project = opts.project[1].id)

(***************************************************************************)
(* --columns of get kubernetescluster, get network and get instance        *)
(***************************************************************************)
\* strings.ToLower on the column names the model types
ToLower(col) ==
    CASE col = "Name" -> "name"
      [] col = "REGION" -> "region"
      [] col = "Bogus" -> "bogus"
      [] OTHER -> col

allColumns(name) ==
    CASE name = "get kubernetescluster" ->
            <<"name", "id", "version", "status", "organization", "project", "region">>
      [] name = "get network" ->
            <<"name", "id", "prefix", "provider", "status", "organization", "project",
              "region">>
      [] name = "get instance" ->
            <<"name", "id", "flavor", "image", "status", "organization", "project",
              "region">>
      [] OTHER -> <<>>

defaultColumns(name) ==
    CASE name = "get kubernetescluster" ->
            <<"name", "version", "status", "organization", "project", "region">>
      [] name = "get network" ->
            <<"name", "prefix", "provider", "status", "organization", "project", "region">>
      [] name = "get instance" ->
            <<"name", "flavor", "status", "organization", "project", "region">>
      [] OTHER -> <<>>

\* fmt.Errorf("unknown column %q, available columns: %s", col, ...)
UnknownColumn(col) ==
    CASE col = "bogus" -> "unknown column \"bogus\""
      [] col = "Bogus" -> "unknown column \"Bogus\""
      [] col = "version" -> "unknown column \"version\""
      [] col = "prefix" -> "unknown column \"prefix\""
      [] col = "flavor" -> "unknown column \"flavor\""
      [] OTHER -> "unknown column"

\* a check that looks at the first column only
validateColumnsFirst(c) ==
    IF ToLower(c.columns[1]) \notin Range(allColumns(c.name))
    THEN UnknownColumn(c.columns[1]) ELSE ""

\* the loop over o.columns that closes validate
validateColumns(c) ==
    LET bad == IndexFunc(c.columns,
                         LAMBDA col : ToLower(col) \notin Range(allColumns(c.name)))
    IN  IF bad # 0 THEN UnknownColumn(c.columns[bad]) ELSE ""

\* the loop over o.columns, entered once the flag validators returned nil
columnsAfter(v, colErr) ==
    IF v.err # "" THEN v
    ELSE IF colErr # "" THEN Ret(v.calls, colErr, NoOptions)
    ELSE v

\* validate: the flag validators, then the columns
validateScopeAndColumns(s, c) ==
    columnsAfter(ScopeValidate(s, c, TRUE, TRUE), validateColumns(c))

\* the header texts of headerMap
HeaderText(col) ==
    CASE col = "name" -> "Name" [] col = "id" -> "ID" [] col = "version" -> "Version"
      [] col = "status" -> "Status" [] col = "organization" -> "Organization"
      [] col = "project" -> "Project" [] col = "region" -> "Region"
      [] col = "prefix" -> "Prefix" [] col = "provider" -> "Provider"
      [] col = "flavor" -> "Flavor" [] col = "image" -> "Image"
      [] OTHER -> ""

\* headerMap[col]: "" for a key the map does not hold
headerMap(name, col) ==
    IF col \in Range(allColumns(name)) THEN HeaderText(col) ELSE ""

\* valueMap[col]: "" for a key the map does not hold
valueMap(name, detail, col) ==
    IF col \in Range(allColumns(name)) THEN detail[col] ELSE ""

\* the table execute prints: one header and one cell per entry of o.columns
Table(c, details) ==
    [headers |-> [k \in 1..Len(c.columns) |-> headerMap(c.name, c.columns[k])],
     rows |-> [i \in 1..Len(details) |->
                  [k \in 1..Len(c.columns) |->
                      valueMap(c.name, details[i], c.columns[k])]]]

HasColumns(c) == allColumns(c.name) # <<>>

(***************************************************************************)
(* get kubernetescluster                                                   *)
(***************************************************************************)
getClusterDetails(cluster, orgNames, projectNames, regionNames) ==
    [id |-> cluster.id, ns |-> cluster.ns, name |-> cluster.name,
     version |-> cluster.version, status |-> cluster.status,
     organization |-> NameOrID(orgNames, cluster.org),
     project |-> NameOrID(projectNames, cluster.project),
     region |-> NameOrID(regionNames, cluster.regionID)]

\* the loop over namespaces.Items appending every per-namespace list
ListAcross(namespaces, items, Sel(_)) ==
    Concat([i \in 1..Len(namespaces) |-> List(items, namespaces[i], Sel)])

\* an execute that forgets the region filter
RegionFilteredNot(opts, allClusters) == allClusters

\* the region filter over allClusters
RegionFiltered(opts, allClusters) ==
    IF opts.region # <<>>
    THEN SelectSeq(allClusters, LAMBDA c : c.regionID = opts.region[1].id)
    ELSE allClusters

getKubernetesClusterValidate(s, c) == validateScopeAndColumns(s, c)

getKubernetesClusterExecute(s, c, opts) ==
    LET namespaces == s.namespaces
        allClusters == ListAcross(namespaces, s.clusters,
                                  LAMBDA x : ScopeSelector(opts, x))
        filtered == RegionFiltered(opts, allClusters)
        on == CreateOrganizationNameMap(s, IdentityNamespace)
        pn == CreateProjectNameMap(s)
        regions == List(s.regions, RegionNamespace, All)
        regionNames == NameMap(regions)
        rows == [i \in 1..Len(filtered) |->
                    getClusterDetails(filtered[i], on.val, pn.val, regionNames)]
    IN  Ret(<<ListCall("Namespace", "")>>
            \o [i \in 1..Len(namespaces) |-> ListCall("KubernetesCluster", namespaces[i])]
            \o on.calls \o pn.calls \o <<ListCall("Region", RegionNamespace)>>,
            "", rows)

(***************************************************************************)
(* get instance                                                            *)
(***************************************************************************)
getInstanceValidate(s, c) == validateScopeAndColumns(s, c)

getInstanceExecute(s, c, opts) ==
    LET namespaces == s.namespaces
        allInstances == ListAcross(namespaces, s.instances,
                           LAMBDA x : /\ ScopeSelector(opts, x)
                                      /\ (opts.region # <<>> => x.region = opts.region[1].id))
        on == CreateOrganizationNameMap(s, IdentityNamespace)
        pn == CreateProjectNameMap(s)
        regionNames == NameMap(List(s.regions, RegionNamespace, All))
        \* buildFlavorNameMap: the regions of the model list no flavors
        flavorNames == [id \in {} |-> ""]
        rows == [i \in 1..Len(allInstances) |->
                    [id |-> allInstances[i].id, ns |-> allInstances[i].ns,
                     name |-> allInstances[i].name,
                     flavor |-> NameOrID(flavorNames, allInstances[i].flavorID),
                     image |-> allInstances[i].imageID,
                     status |-> allInstances[i].status,
                     organization |-> NameOrID(on.val, allInstances[i].org),
                     project |-> NameOrID(pn.val, allInstances[i].project),
                     region |-> NameOrID(regionNames, allInstances[i].region)]]
    IN  Ret(<<ListCall("Namespace", "")>>
            \o [i \in 1..Len(namespaces) |-> ListCall("ComputeInstance", namespaces[i])]
            \o on.calls \o pn.calls \o <<ListCall("Region", RegionNamespace)>>,
            "", rows)

(***************************************************************************)
(* get network                                                             *)
(***************************************************************************)
getNetworkValidate(s, c) == validateScopeAndColumns(s, c)

getNetworkExecute(s, c, opts) ==
    LET namespaces == s.namespaces
        allNetworks == ListAcross(namespaces, s.networks,
                           LAMBDA x : /\ ScopeSelector(opts, x)
                                      /\ (opts.region # <<>> => x.region = opts.region[1].id))
        on == CreateOrganizationNameMap(s, IdentityNamespace)
        pn == CreateProjectNameMap(s)
        regionNames == NameMap(List(s.regions, RegionNamespace, All))
        rows == [i \in 1..Len(allNetworks) |->
                    [id |-> allNetworks[i].id, ns |-> allNetworks[i].ns,
                     name |-> allNetworks[i].name,
                     prefix |-> allNetworks[i].prefix,
                     provider |-> allNetworks[i].provider,
                     status |-> allNetworks[i].status,
                     organization |-> NameOrID(on.val, allNetworks[i].org),
                     project |-> NameOrID(pn.val, allNetworks[i].project),
                     region |-> NameOrID(regionNames, allNetworks[i].region)]]
    IN  Ret(<<ListCall("Namespace", "")>>
            \o [i \in 1..Len(namespaces) |-> ListCall("Network", namespaces[i])]
            \o on.calls \o pn.calls \o <<ListCall("Region", RegionNamespace)>>,
            "", rows)

(***************************************************************************)
(* get user                                                                *)
(***************************************************************************)
\* index[items[i].Name] = &items[i]: the last item of an id wins
ObjMap(items) ==
    [id \in {x.id : x \in Range(items)} |->
        LET i == CHOOSE i \in 1..Len(items) :
                    /\ items[i].id = id
                    /\ \A j \in (i+1)..Len(items) : items[j].id # id
        IN  items[i]]

GetUser(s, namespace, email) ==
    LET resources == List(s.users, namespace, All)
        index == IndexFunc(resources, LAMBDA u : u.subject = email)
        cs == <<ListCall("User", namespace)>>
    IN  IF index = 0 THEN Ret(cs, "validation: unable to find user", <<>>)
        ELSE Ret(cs, "", <<resources[index]>>)

UserFlagsValidate(s, c) ==
    IF c.email = "" THEN Ret(<<>>, "", <<>>)
    ELSE GetUser(s, IdentityNamespace, c.email)

getUserValidate(s, c) ==
    LET vo == OrganizationFlagsValidate(s, c)
        vu == UserFlagsValidate(s, c)
    IN  IF vo.err # "" THEN Ret(vo.calls, vo.err, NoOptions)
        ELSE IF vu.err # "" THEN Ret(vo.calls \o vu.calls, vu.err, NoOptions)
        ELSE Ret(vo.calls \o vu.calls, "", [NoOptions EXCEPT !.organization = vo.val])

\* an execute that also writes a user back
getUserExecuteWriting(s, c, opts) ==
    LET userIndex == ObjMap(List(s.users, "", All))
        organizationIndex == ObjMap(List(s.organizations, "", All))
        organizationUsers ==
            List(s.orgusers, "",
                 LAMBDA x : opts.organization # <<>> => x.org = opts.organization[1].id)
        \* what the loop body does with organizationUsers[i]
        Body(ou) ==
            IF ou.user \notin DOMAIN userIndex THEN "nouser"
            ELSE IF c.email # "" /\ userIndex[ou.user].subject # c.email THEN "skip"
            ELSE IF ou.org \notin DOMAIN organizationIndex THEN "noorg"
            ELSE "row"
        bad == IndexFunc(organizationUsers, LAMBDA ou : Body(ou) \in {"nouser", "noorg"})
        shown == SelectSeq(organizationUsers, LAMBDA ou : Body(ou) = "row")
        rows == [i \in 1..Len(shown) |->
                    [id |-> shown[i].id, ns |-> shown[i].ns,
                     email |-> userIndex[shown[i].user].subject,
                     organization |-> organizationIndex[shown[i].org].name]]
        cs == <<ListCall("User", ""), ListCall("Organization", ""),
                ListCall("OrganizationUser", ""),
                CreateCall("User", [id |-> "seen", ns |-> IdentityNamespace,
                                    subject |-> c.email])>>
    IN  IF bad # 0 THEN Ret(cs, "consistency error", <<>>)
        ELSE Ret(cs, "", rows)

getUserExecute(s, c, opts) ==
    LET userIndex == ObjMap(List(s.users, "", All))
        organizationIndex == ObjMap(List(s.organizations, "", All))
        organizationUsers ==
            List(s.orgusers, "",
                 LAMBDA x : opts.organization # <<>> => x.org = opts.organization[1].id)
        \* what the loop body does with organizationUsers[i]
        Body(ou) ==
            IF ou.user \notin DOMAIN userIndex THEN "nouser"
            ELSE IF c.email # "" /\ userIndex[ou.user].subject # c.email THEN "skip"
            ELSE IF ou.org \notin DOMAIN organizationIndex THEN "noorg"
            ELSE "row"
        bad == IndexFunc(organizationUsers, LAMBDA ou : Body(ou) \in {"nouser", "noorg"})
        shown == SelectSeq(organizationUsers, LAMBDA ou : Body(ou) = "row")
        rows == [i \in 1..Len(shown) |->
                    [id |-> shown[i].id, ns |-> shown[i].ns,
                     email |-> userIndex[shown[i].user].subject,
                     organization |-> organizationIndex[shown[i].org].name]]
        cs == <<ListCall("User", ""), ListCall("Organization", ""),
                ListCall("OrganizationUser", "")>>
    IN  IF bad # 0 THEN Ret(cs, "consistency error", <<>>)
        ELSE Ret(cs, "", rows)

(***************************************************************************)
(* get sshkey                                                              *)
(***************************************************************************)
\* strings.TrimPrefix(label, "kubernetes-cluster-") on a label held as tokens
TrimPrefix(label) ==
    IF Len(label) > 0 /\ label[1] = ClusterPrefix THEN Tail(label) ELSE label

\* for id, name := range m: the keys of m in the order this run iterates them
MapKeys(m, order) == SelectSeq(order, LAMBDA id : id \in DOMAIN m)

getSSHKeyValidate(s, c) == Ret(<<>>, "", NoOptions)

\* fmt.Errorf("%w: no OpenStack identity found for cluster %s", ..., id)
NoIdentityFor(id) ==
    CASE id = "c1" -> "validation: no OpenStack identity found for cluster c1"
      [] id = "c2" -> "validation: no OpenStack identity found for cluster c2"
      [] id = "c3" -> "validation: no OpenStack identity found for cluster c3"
      [] OTHER -> "validation: no OpenStack identity found for cluster"

\* a lookup that tries the identifier as an ID before it tries it as a name
resolveClusterIDFirst(clusterNameMap, clusterIdentifier, order) ==
    LET keys == MapKeys(clusterNameMap, order)
        byName == IndexFunc(keys, LAMBDA id : clusterNameMap[id] = clusterIdentifier)
    IN  IF clusterIdentifier \in DOMAIN clusterNameMap THEN clusterIdentifier
        ELSE IF byName # 0 THEN keys[byName]
        ELSE ""

\* the identifier resolved to a cluster ID, "" when it is neither name nor ID
resolveClusterID(clusterNameMap, clusterIdentifier, order) ==
    LET keys == MapKeys(clusterNameMap, order)
        byName == IndexFunc(keys, LAMBDA id : clusterNameMap[id] = clusterIdentifier)
    IN  IF byName # 0 THEN keys[byName]
        ELSE IF clusterIdentifier \in DOMAIN clusterNameMap THEN clusterIdentifier
        ELSE ""

getSSHKeyExecute(s, c, opts, order) ==
    LET nm == CreateKubernetesClusterNameMap(s, "", "")
        clusterIdentifier == c.args[1]
        resolvedClusterID == resolveClusterID(nm.val, clusterIdentifier, order)
        found == resolvedClusterID # "" \/ clusterIdentifier \in DOMAIN nm.val
        resources == List(s.identities, RegionNamespace, All)
        target == IndexFunc(resources,
                            LAMBDA r : TrimPrefix(r.label) = <<resolvedClusterID>>)
    IN  IF ~found THEN Ret(nm.calls, "validation: cluster not found", <<>>)
        ELSE IF target = 0
             THEN Ret(nm.calls \o <<ListCall("OpenstackIdentity", RegionNamespace)>>,
                      NoIdentityFor(resolvedClusterID), <<>>)
             ELSE Ret(nm.calls \o <<ListCall("OpenstackIdentity", RegionNamespace)>>,
                      "", [cluster |-> resolvedClusterID,
                           key |-> resources[target].key])

(***************************************************************************)
(* get openstackidentity                                                   *)
(***************************************************************************)
GetOpenstackIdentity(s, namespace, id) ==
    LET r == Get(s.identities, namespace, id)
    IN  IF r = <<>>
        THEN Ret(<<GetCall("OpenstackIdentity", namespace, FALSE)>>, "NotFound", <<>>)
        ELSE Ret(<<GetCall("OpenstackIdentity", namespace, TRUE)>>, "", <<r[1]>>)

\* clusterNames[clusterName] for a key held as tokens
LookupTokens(m, tokens) == IF Len(tokens) = 1 THEN Lookup(m, tokens[1]) ELSE ""

\* the identity IDs of the model in the order "<" on strings puts them
IdentityOrder == <<"i0", "i1", "i2", "i3", "i4">>

\* sort.Slice(rows, ...) by identityID
SortByIdentityID(rows) ==
    Concat([k \in 1..Len(IdentityOrder) |->
               SelectSeq(rows, LAMBDA r : r.identityID = IdentityOrder[k])])

getOpenstackIdentityValidate(s, c) ==
    IF Len(c.args) > 0
    THEN LET g == GetOpenstackIdentity(s, RegionNamespace, c.args[1])
         IN  IF g.err # ""
             THEN Ret(g.calls, "validation: OpenStack identity not found", NoOptions)
             ELSE Ret(g.calls, "", NoOptions)
    ELSE Ret(<<>>, "", NoOptions)

getOpenstackIdentityExecute(s, c, opts) ==
    LET resources == List(s.identities, RegionNamespace, All)
        nm == CreateKubernetesClusterNameMap(s, "", "")
        Row(r) == [identityID |-> r.id, clusterID |-> TrimPrefix(r.label),
                   clusterName |-> LookupTokens(nm.val, TrimPrefix(r.label))]
        first == IndexFunc(resources, LAMBDA r : r.label = <<c.args[1]>>)
        picked == IF Len(c.args) > 0
                  THEN IF first = 0 THEN <<>> ELSE <<resources[first]>>
                  ELSE resources
        rows == [i \in 1..Len(picked) |-> Row(picked[i])]
    IN  Ret(<<ListCall("OpenstackIdentity", RegionNamespace)>> \o nm.calls, "",
            SortByIdentityID(rows))

(***************************************************************************)
(* describe kubernetescluster                                              *)
(***************************************************************************)
describeKubernetesClusterValidate(s, c) == ScopeValidate(s, c, TRUE, FALSE)

describeKubernetesClusterExecute(s, c, opts) ==
    LET namespaces == s.namespaces
        identifier == c.args[1]
        Hits(n) == List(s.clusters, n,
                        LAMBDA x : /\ ScopeSelector(opts, x)
                                   /\ (x.name = identifier \/ x.id = identifier))
        \* the first namespace whose list holds the cluster ends the search
        k == IndexFunc([i \in 1..Len(namespaces) |-> i],
                       LAMBDA i : Hits(namespaces[i]) # <<>>)
        searched == IF k = 0 THEN Len(namespaces) ELSE k
        scan == <<ListCall("Namespace", "")>>
                \o [i \in 1..searched |-> ListCall("KubernetesCluster", namespaces[i])]
        on == CreateOrganizationNameMap(s, IdentityNamespace)
        pn == CreateProjectNameMap(s)
        regionNames == NameMap(List(s.regions, RegionNamespace, All))
    IN  IF k = 0 THEN Ret(scan, "kubernetes cluster not found", <<>>)
        ELSE Ret(scan \o on.calls \o pn.calls \o <<ListCall("Region", RegionNamespace)>>,
                 "", <<getClusterDetails(Hits(namespaces[k])[1], on.val, pn.val,
                                         regionNames)>>)

(***************************************************************************)
(* describe openstackidentity                                              *)
(***************************************************************************)
describeOpenstackIdentityValidate(s, c) ==
    IF Len(c.args) = 0
    THEN Ret(<<>>, "validation: OpenStack identity name is required", NoOptions)
    ELSE Ret(<<>>, "", NoOptions)

describeOpenstackIdentityExecute(s, c, opts) ==
    LET g == GetOpenstackIdentity(s, RegionNamespace, c.args[1])
        nm == CreateKubernetesClusterNameMap(s, "", "")
    IN  IF g.err # "" THEN Ret(g.calls, "failed to get OpenStack identity", <<>>)
        ELSE Ret(g.calls \o nm.calls, "",
                 <<[identityID |-> g.val[1].id,
                    clusterID |-> TrimPrefix(g.val[1].label),
                    clusterName |-> LookupTokens(nm.val, TrimPrefix(g.val[1].label))]>>)

(***************************************************************************)
(* create user                                                             *)
(***************************************************************************)
validateUser(s, c) ==
    LET resources == List(s.users, IdentityNamespace, All)
        cs == <<ListCall("User", IdentityNamespace)>>
    IN  IF \E i \in 1..Len(resources) : resources[i].subject = c.email
        THEN Ret(cs, "validation: user already exists", <<>>)
        ELSE Ret(cs, "", <<>>)

createUserValidate(s, c) ==
    LET vu == validateUser(s, c)
        vo == OrganizationFlagsValidate(s, c)
    IN  IF vu.err # "" THEN Ret(vu.calls, vu.err, NoOptions)
        ELSE IF vo.err # "" THEN Ret(vu.calls \o vo.calls, vo.err, NoOptions)
        ELSE Ret(vu.calls \o vo.calls, "", [NoOptions EXCEPT !.organization = vo.val])

createUserExecute(s, c, opts) ==
    LET user == [id |-> NewID, ns |-> IdentityNamespace, subject |-> c.email]
    IN  Ret(<<CreateCall("User", user)>>, "", <<user>>)

(***************************************************************************)
(* create group                                                            *)
(***************************************************************************)
\* slices.Sort followed by slices.Compact
SortCompact(xs) == SelectSeq(StringOrder, LAMBDA x : x \in Range(xs))

validateGroup(s, c) ==
    LET resources == List(s.groups, IdentityNamespace, LAMBDA x : x.name = c.flagName)
        cs == <<ListCall("Group", IdentityNamespace)>>
    IN  IF Len(resources) # 0
        THEN Ret(cs, "validation: expected no groups to exist", <<>>)
        ELSE Ret(cs, "", <<>>)

\* a validation that lists the roles of every namespace
validateRolesAnywhere(s, c) ==
    LET roles == SortCompact(c.roles)
        resources == List(s.roles, "", All)
        Index(role) == IndexFunc(resources, LAMBDA r : r.name = role)
        missing == IndexFunc(roles, LAMBDA role : Index(role) = 0)
        cs == <<ListCall("Role", "")>>
    IN  IF missing # 0 THEN Ret(cs, "validation: unable to find role", <<>>)
        ELSE Ret(cs, "", [i \in 1..Len(roles) |-> resources[Index(roles[i])].id])

validateRoles(s, c) ==
    LET roles == SortCompact(c.roles)
        resources == List(s.roles, IdentityNamespace, All)
        Index(role) == IndexFunc(resources, LAMBDA r : r.name = role)
        missing == IndexFunc(roles, LAMBDA role : Index(role) = 0)
        cs == <<ListCall("Role", IdentityNamespace)>>
    IN  IF missing # 0 THEN Ret(cs, "validation: unable to find role", <<>>)
        ELSE Ret(cs, "", [i \in 1..Len(roles) |-> resources[Index(roles[i])].id])

\* userIDs is made with len(o.roles) entries and filled at the users' indexes
validateUsers(s, c, organizationNamespace) ==
    LET roles == SortCompact(c.roles)
        users == SortCompact(c.users)
        resources == List(s.users, organizationNamespace, All)
        Index(user) == IndexFunc(resources, LAMBDA u : u.subject = user)
        missing == IndexFunc(users, LAMBDA user : Index(user) = 0)
        cs == <<ListCall("User", organizationNamespace)>>
    IN  IF missing # 0 /\ missing <= Len(roles) + 1
        THEN Ret(cs, "validation: unable to find user", <<>>)
        ELSE IF Len(users) > Len(roles)
        THEN Ret(cs, "panic: index out of range", <<>>)
        ELSE Ret(cs, "", [i \in 1..Len(roles) |->
                             IF i <= Len(users) THEN resources[Index(users[i])].id
                             ELSE ""])

createGroupValidate(s, c) ==
    LET vo == OrganizationFlagsValidate(s, c)
        vg == validateGroup(s, c)
        vr == validateRoles(s, c)
        vu == validateUsers(s, c, IF vo.val # <<>> THEN vo.val[1].statusNs ELSE "")
    IN  IF vo.err # "" THEN Ret(vo.calls, vo.err, NoOptions)
        ELSE IF vg.err # "" THEN Ret(vo.calls \o vg.calls, vg.err, NoOptions)
        ELSE IF vr.err # "" THEN Ret(vo.calls \o vg.calls \o vr.calls, vr.err, NoOptions)
        ELSE IF vu.err # ""
        THEN Ret(vo.calls \o vg.calls \o vr.calls \o vu.calls, vu.err, NoOptions)
        ELSE Ret(vo.calls \o vg.calls \o vr.calls \o vu.calls, "",
                 [organization |-> vo.val, project |-> <<>>, region |-> <<>>,
                  roleIDs |-> vr.val, userIDs |-> vu.val])

createGroupExecute(s, c, opts) ==
    LET group == [id |-> NewID,
                  ns |-> IF opts.organization # <<>>
                         THEN opts.organization[1].statusNs ELSE "",
                  name |-> c.flagName,
                  org |-> IF opts.organization # <<>>
                          THEN opts.organization[1].id ELSE "",
                  roleIDs |-> opts.roleIDs, userIDs |-> opts.userIDs]
    IN  Ret(<<CreateCall("Group", group)>>, "", <<group>>)

(***************************************************************************)
(* create organization                                                     *)
(***************************************************************************)
\* a validation that lists the organizations of another namespace
validateOrganizationElsewhere(s, c) ==
    LET resources == List(s.organizations, "ns1", LAMBDA x : x.name = c.flagName)
        cs == <<ListCall("Organization", "ns1")>>
    IN  IF Len(resources) # 0
        THEN Ret(cs, "validation: expected no organizations to exist", NoOptions)
        ELSE Ret(cs, "", NoOptions)

validateOrganization(s, c) ==
    LET resources == List(s.organizations, IdentityNamespace,
                          LAMBDA x : x.name = c.flagName)
        cs == <<ListCall("Organization", IdentityNamespace)>>
    IN  IF Len(resources) # 0
        THEN Ret(cs, "validation: expected no organizations to exist", NoOptions)
        ELSE Ret(cs, "", NoOptions)

createOrganizationValidate(s, c) == validateOrganization(s, c)

\* execute up to its Create call; the poll loop follows (Poll, Expire)
createOrganizationExecute(s, c, opts) ==
    LET organization == [id |-> NewID, ns |-> IdentityNamespace,
                         name |-> c.flagName, statusNs |-> ""]
    IN  Ret(<<CreateCall("Organization", organization)>>, "", <<organization>>)

(***************************************************************************)
(* connect clustermanager                                                  *)
(***************************************************************************)
connectClusterManagerExecute(s, c, opts) ==
    LET namespaces == s.namespaces
        name == c.args[1]
        Found(n) == Get(s.managers, n, name) # <<>>
        k == IndexFunc([i \in 1..Len(namespaces) |-> i],
                       LAMBDA i : Found(namespaces[i]))
        searched == IF k = 0 THEN Len(namespaces) ELSE k
        scan == <<ListCall("Namespace", "")>>
                \o [i \in 1..searched |->
                       GetCall("ClusterManager", namespaces[i], Found(namespaces[i]))]
        Exec(what) == [verb |-> "Exec", kind |-> what, ns |-> "", res |-> "ok"]
    IN  IF k = 0 THEN Ret(scan, "cluster manager not found in any namespace", <<>>)
        ELSE Ret(scan \o <<Exec("kubectl get pods"), Exec("vcluster connect")>>, "",
                 <<[manager |-> name, ns |-> namespaces[k]]>>)

(***************************************************************************)
(* The command tree: which validate and execute a command name runs.       *)
(***************************************************************************)
Command(name) ==
    [name |-> name, organization |-> "", project |-> "", region |-> "",
     args |-> <<>>, email |-> "", flagName |-> "", roles |-> <<>>, users |-> <<>>,
     columns |-> defaultColumns(name)]

\* connect clustermanager's RunE calls execute right after factory.Client()
HasValidate(c) == c.name # "connect clustermanager"

\* cobra.ExactArgs(1), or the len(args) != 1 check that opens RunE
ArgsOK(c) ==
    IF c.name \in {"get sshkey", "connect clustermanager", "describe kubernetescluster"}
    THEN Len(c.args) = 1
    ELSE TRUE

IsReadOnly(c) ==
    c.name \in {"get kubernetescluster", "get network", "get instance", "get user",
                "get sshkey",
                "get openstackidentity", "describe kubernetescluster",
                "describe openstackidentity"}

Validate(s, c) ==
    CASE c.name = "get kubernetescluster" -> getKubernetesClusterValidate(s, c)
      [] c.name = "get network" -> getNetworkValidate(s, c)
      [] c.name = "get instance" -> getInstanceValidate(s, c)
      [] c.name = "get user" -> getUserValidate(s, c)
      [] c.name = "get sshkey" -> getSSHKeyValidate(s, c)
      [] c.name = "get openstackidentity" -> getOpenstackIdentityValidate(s, c)
      [] c.name = "describe kubernetescluster" -> describeKubernetesClusterValidate(s, c)
      [] c.name = "describe openstackidentity" -> describeOpenstackIdentityValidate(s, c)
      [] c.name = "create user" -> createUserValidate(s, c)
      [] c.name = "create group" -> createGroupValidate(s, c)
      [] c.name = "create organization" -> createOrganizationValidate(s, c)

Execute(s, c, opts, order) ==
    CASE c.name = "get kubernetescluster" -> getKubernetesClusterExecute(s, c, opts)
      [] c.name = "get network" -> getNetworkExecute(s, c, opts)
      [] c.name = "get instance" -> getInstanceExecute(s, c, opts)
      [] c.name = "get user" -> getUserExecute(s, c, opts)
      [] c.name = "get sshkey" -> getSSHKeyExecute(s, c, opts, order)
      [] c.name = "get openstackidentity" -> getOpenstackIdentityExecute(s, c, opts)
      [] c.name = "describe kubernetescluster" -> describeKubernetesClusterExecute(s, c, opts)
      [] c.name = "describe openstackidentity" -> describeOpenstackIdentityExecute(s, c, opts)
      [] c.name = "create user" -> createUserExecute(s, c, opts)
      [] c.name = "create group" -> createGroupExecute(s, c, opts)
      [] c.name = "create organization" -> createOrganizationExecute(s, c, opts)
      [] c.name = "connect clustermanager" -> connectClusterManagerExecute(s, c, opts)

\* the step RunE is in, computed on what the store holds
Phase == IF pc = "validate" THEN Validate(store, cmd)
         ELSE Execute(store, cmd, o, pick)

\* cli.Create: the object joins the list of its kind
Apply(s, call) ==
    CASE call.kind = "User" -> [s EXCEPT !.users = Append(@, call.obj)]
      [] call.kind = "Group" -> [s EXCEPT !.groups = Append(@, call.obj)]
      [] call.kind = "Organization" -> [s EXCEPT !.organizations = Append(@, call.obj)]

Logged(call, res) ==
    [verb |-> call.verb, kind |-> call.kind, ns |-> call.ns, res |-> res]

\* a call site that issues the failed call once more
OnErrorRetry(c, call) == IF c.name = "get user" THEN "retry" ELSE "return"

\* what the call site does with a call that failed in transport:
\* every "if err := cli...; err != nil" of validate and execute returns
OnError(c, call) == "return"

(***************************************************************************)
(* main and RunE                                                           *)
(***************************************************************************)
\* cmd.Execute() reaches RunE, which opens with the argument check
Start ==
    /\ pc = "start"
    /\ IF ArgsOK(cmd)
       THEN /\ pc' = "client"
            /\ steps' = Append(steps, "client")
            /\ err' = err
       ELSE /\ pc' = "returned"
            /\ err' = "invalid arguments"
            /\ steps' = steps
    /\ UNCHANGED <<store, store0, cmd, idx, o, results, calls, out, printed,
                   exitCode, goroutines, synced, waited, client, now, pick, prev, tbl>>

\* Factory.Client without the call of cache.WaitForCacheSync
ClientBuildNoWait ==
    /\ pc = "client"
    /\ goroutines' = goroutines + 1
    /\ pc' = "client.new"
    /\ UNCHANGED <<store, store0, cmd, idx, o, steps, results, calls, out, err,
                   printed, exitCode, synced, waited, client, now, pick, prev, tbl>>

\* Factory.Client up to "go func() { _ = cache.Start(ctx) }()"
ClientBuild ==
    /\ pc = "client"
    /\ \E outcome \in {"config error", "scheme error", "cache error", "go"} :
          IF outcome = "go"
          THEN /\ goroutines' = goroutines + 1
               /\ pc' = "client.wait"
               /\ UNCHANGED <<err, results>>
          ELSE /\ err' = outcome
               /\ results' = Append(results, "error")
               /\ pc' = "returned"
               /\ goroutines' = goroutines
    /\ UNCHANGED <<store, store0, cmd, idx, o, steps, calls, out, printed,
                   exitCode, synced, waited, client, now, pick, prev, tbl>>

\* the background goroutine: cache.Start brings the cache up
CacheStart ==
    /\ goroutines > 0
    /\ ~synced
    /\ synced' = TRUE
    /\ UNCHANGED <<store, store0, cmd, pc, idx, o, steps, results, calls, out,
                   err, printed, exitCode, goroutines, waited, client, now, pick, prev, tbl>>

\* cache.WaitForCacheSync(ctx) returns
ClientWait ==
    /\ pc = "client.wait"
    /\ synced
    /\ waited' = TRUE
    /\ pc' = "client.new"
    /\ UNCHANGED <<store, store0, cmd, idx, o, steps, results, calls, out, err,
                   printed, exitCode, goroutines, synced, client, now, pick, prev, tbl>>

\* client.New, the return of Factory.Client, and RunE's next step
ClientNew ==
    /\ pc = "client.new"
    /\ \E ok \in BOOLEAN :
          IF ok
          THEN /\ client' = TRUE
               /\ results' = Append(results, "ok")
               /\ pc' = IF HasValidate(cmd) THEN "validate" ELSE "execute"
               /\ steps' = Append(steps, IF HasValidate(cmd) THEN "validate"
                                         ELSE "execute")
               /\ err' = err
          ELSE /\ err' = "client error"
               /\ results' = Append(results, "error")
               /\ pc' = "returned"
               /\ UNCHANGED <<client, steps>>
    /\ idx' = 0
    /\ UNCHANGED <<store, store0, cmd, o, calls, out, printed, exitCode,
                   goroutines, synced, waited, now, pick, prev, tbl>>

\* the next API call of validate or execute; failed says the transport failed
Call ==
    /\ pc \in {"validate", "execute"}
    /\ idx < Len(Phase.calls)
    /\ LET call == Phase.calls[idx + 1]
       IN  \E failed \in BOOLEAN :
              IF failed
              THEN /\ calls' = Append(calls, Logged(call, "error"))
                   /\ store' = store
                   /\ IF OnError(cmd, call) = "return"
                      THEN /\ err' = "api error"
                           /\ results' = Append(results, "error")
                           /\ pc' = "returned"
                           /\ idx' = idx
                      ELSE UNCHANGED <<err, results, pc, idx>>
              ELSE /\ calls' = Append(calls, Logged(call, call.res))
                   /\ store' = IF call.verb = "Create" THEN Apply(store, call)
                               ELSE store
                   /\ idx' = idx + 1
                   /\ UNCHANGED <<err, results, pc>>
    /\ UNCHANGED <<store0, cmd, o, steps, out, printed, exitCode, goroutines,
                   synced, waited, client, now, pick, prev, tbl>>

\* validate or execute returns once its calls are through
PhaseEnd ==
    /\ pc \in {"validate", "execute"}
    /\ idx = Len(Phase.calls)
    /\ IF Phase.err # ""
       THEN /\ err' = Phase.err
            /\ results' = Append(results, "error")
            /\ pc' = "returned"
            /\ UNCHANGED <<o, steps, out, idx, tbl>>
       ELSE IF pc = "validate"
       THEN /\ o' = Phase.val
            /\ results' = Append(results, "ok")
            /\ steps' = Append(steps, "execute")
            /\ pc' = "execute"
            /\ idx' = 0
            /\ UNCHANGED <<err, out, tbl>>
       ELSE IF cmd.name = "create organization"
       THEN /\ pc' = "poll"
            /\ idx' = 0
            /\ UNCHANGED <<o, results, steps, err, out, tbl>>
       ELSE /\ out' = Phase.val
            /\ tbl' = IF HasColumns(cmd) THEN Table(cmd, out') ELSE tbl
            /\ results' = Append(results, "ok")
            /\ pc' = "returned"
            /\ UNCHANGED <<o, steps, err, idx>>
    /\ UNCHANGED <<store, store0, cmd, calls, printed, exitCode, goroutines,
                   synced, waited, client, now, pick, prev>>

\* main without os.Exit(1)
ExitAlwaysZero ==
    /\ pc = "returned"
    /\ pc' = "exit"
    /\ printed' = err
    /\ exitCode' = 0
    /\ UNCHANGED <<store, store0, cmd, idx, o, steps, results, calls, out, err,
                   goroutines, synced, waited, client, now, pick, prev, tbl>>

\* main: "if err := cmd.Execute(); err != nil { fmt.Println(err); os.Exit(1) }";
\* a panic ends the process with status 2
Exit ==
    /\ pc = "returned"
    /\ pc' = "exit"
    /\ printed' = err
    /\ exitCode' = IF err = "" THEN 0
                   ELSE IF err = "panic: index out of range" THEN 2 ELSE 1
    /\ UNCHANGED <<store, store0, cmd, idx, o, steps, results, calls, out, err,
                   goroutines, synced, waited, client, now, pick, prev, tbl>>

NextRun ==
    \/ Start \/ ClientBuild \/ CacheStart \/ ClientWait \/ ClientNew
    \/ Call \/ PhaseEnd \/ Exit

(***************************************************************************)
(* create organization: retry.Forever().DoWithContext(ctx, callback)       *)
(***************************************************************************)
\* a context without deadline: context.Background() instead of WithTimeout
CtxNeverDone == FALSE

\* ctx.Done() is closed: the minute of context.WithTimeout has passed
CtxDone == now >= TimeoutTicks

\* a callback that is content with any organization the Get returns
callbackAnyGet(s, failed) ==
    LET r == Get(s.organizations, IdentityNamespace, NewID)
    IN  IF failed THEN Ret(<<GetCall("Organization", IdentityNamespace, FALSE)>>,
                           "api error", <<>>)
        ELSE IF r = <<>>
        THEN Ret(<<GetCall("Organization", IdentityNamespace, FALSE)>>, "NotFound", <<>>)
        ELSE Ret(<<GetCall("Organization", IdentityNamespace, TRUE)>>, "", r)

\* the callback of execute: Get the organization, then look at its namespace
callback(s, failed) ==
    LET r == Get(s.organizations, IdentityNamespace, NewID)
    IN  IF failed THEN Ret(<<GetCall("Organization", IdentityNamespace, FALSE)>>,
                           "api error", <<>>)
        ELSE IF r = <<>>
        THEN Ret(<<GetCall("Organization", IdentityNamespace, FALSE)>>, "NotFound", <<>>)
        ELSE IF r[1].statusNs = ""
        THEN Ret(<<GetCall("Organization", IdentityNamespace, TRUE)>>,
                 "resource: organization not provisioned", <<>>)
        ELSE Ret(<<GetCall("Organization", IdentityNamespace, TRUE)>>, "", r)

\* the ticker fires: the callback runs; a nil error ends the loop
Poll ==
    /\ pc = "poll"
    /\ idx < now
    /\ \E failed \in BOOLEAN :
          LET cb == callback(store, failed)
          IN  /\ calls' = Append(calls, Logged(cb.calls[1],
                                     IF failed THEN "error" ELSE cb.calls[1].res))
              /\ idx' = idx + 1
              /\ IF cb.err = ""
                 THEN /\ out' = cb.val
                      /\ results' = Append(results, "ok")
                      /\ pc' = "returned"
                 ELSE UNCHANGED <<out, results, pc>>
    /\ UNCHANGED <<store, store0, cmd, o, steps, err, printed, exitCode,
                   goroutines, synced, waited, client, now, pick, prev, tbl>>

\* one period of the poll ticker passes
Tick ==
    /\ pc = "poll"
    /\ now < TimeoutTicks + LateTicks
    /\ now' = now + 1
    /\ UNCHANGED <<store, store0, cmd, pc, idx, o, steps, results, calls, out,
                   err, printed, exitCode, goroutines, synced, waited, client,
                   pick, prev, tbl>>

\* case <-c.Done(): the loop returns the context's error
Expire ==
    /\ pc = "poll"
    /\ CtxDone
    /\ err' = "context deadline exceeded"
    /\ results' = Append(results, "error")
    /\ pc' = "returned"
    /\ UNCHANGED <<store, store0, cmd, idx, o, steps, calls, out, printed,
                   exitCode, goroutines, synced, waited, client, now, pick, prev, tbl>>

\* the identity controller provisions the new organization's namespace
Provision ==
    /\ \E i \in 1..Len(store.organizations) :
          /\ store.organizations[i].id = NewID
          /\ store.organizations[i].statusNs = ""
          /\ store' = [store EXCEPT !.organizations[i].statusNs = "ns-new"]
    /\ UNCHANGED <<store0, cmd, pc, idx, o, steps, results, calls, out, err,
                   printed, exitCode, goroutines, synced, waited, client, now,
                   pick, prev, tbl>>

(***************************************************************************)
(* A second invocation of the same command line on the same store.         *)
(***************************************************************************)
Orders(S) ==
    {p \in [1..Cardinality(S) -> S] : \A i, j \in 1..Cardinality(S) : p[i] = p[j] => i = j}

Again ==
    /\ pc = "exit"
    /\ prev = <<>>
    /\ store = store0
    /\ prev' = <<[out |-> out, err |-> err]>>
    /\ pick' \in Orders(Range(pick))
    /\ pc' = "start"
    /\ idx' = 0
    /\ o' = NoOptions
    /\ steps' = <<>>
    /\ results' = <<>>
    /\ calls' = <<>>
    /\ out' = <<>>
    /\ err' = ""
    /\ printed' = ""
    /\ exitCode' = -1
    /\ goroutines' = 0
    /\ synced' = FALSE
    /\ waited' = FALSE
    /\ client' = FALSE
    /\ tbl' = <<>>
    /\ UNCHANGED <<store, store0, cmd, now>>

(***************************************************************************)
(* Stores and command lines the invocations start from.                    *)
(***************************************************************************)
Namespaces == <<IdentityNamespace, RegionNamespace, "ns1", "ns2">>

Org(id, name, statusNs) ==
    [id |-> id, ns |-> IdentityNamespace, name |-> name, statusNs |-> statusNs]
Project(id, ns, name, org) ==
    [id |-> id, ns |-> ns, name |-> name, org |-> org, statusNs |-> ns]
Region(id, name) == [id |-> id, ns |-> RegionNamespace, name |-> name]
Cluster(id, ns, name, org, project, regionID) ==
    [id |-> id, ns |-> ns, name |-> name, org |-> org, project |-> project,
     regionID |-> regionID, version |-> "v1.30", status |-> "Provisioned"]
Network(id, ns, name, org, project, region) ==
    [id |-> id, ns |-> ns, name |-> name, org |-> org, project |-> project,
     region |-> region, prefix |-> "10.0.0.0/24", provider |-> "openstack",
     status |-> "Provisioned"]
Instance(id, ns, name, org, project, region) ==
    [id |-> id, ns |-> ns, name |-> name, org |-> org, project |-> project,
     region |-> region, flavorID |-> "f1", imageID |-> "img1",
     status |-> "Provisioned"]
Identity(id, ns, label, key) == [id |-> id, ns |-> ns, label |-> label, key |-> key]
User(id, ns, subject) == [id |-> id, ns |-> ns, subject |-> subject]
OrgUser(id, ns, user, org) == [id |-> id, ns |-> ns, user |-> user, org |-> org]
Role(id, name) == [id |-> id, ns |-> IdentityNamespace, name |-> name]
Group(id, ns, name) ==
    [id |-> id, ns |-> ns, name |-> name, org |-> "o1", roleIDs |-> <<>>,
     userIDs |-> <<>>]
Manager(id, ns, name, org) == [id |-> id, ns |-> ns, name |-> name, org |-> org]

BaseStore ==
    [namespaces |-> Namespaces,
     organizations |-> <<Org("o1", "acme", "ns1"), Org("o2", "", "ns2")>>,
     projects |-> <<Project("p1", "ns1", "web", "o1"), Project("p2", "ns2", "", "o2")>>,
     regions |-> <<Region("r1", "north"), Region("r2", "")>>,
     clusters |-> <<Cluster("c1", "ns1", "alpha", "o1", "p1", "r1"),
                    Cluster("c2", "ns2", "beta", "o2", "p2", "r2")>>,
     networks |-> <<Network("n1", "ns1", "lan", "o1", "p1", "r1")>>,
     instances |-> <<Instance("vm1", "ns1", "box", "o1", "p1", "r1")>>,
     identities |-> <<Identity("i1", RegionNamespace, <<ClusterPrefix, "c1">>, "key1")>>,
     users |-> <<User("u1", IdentityNamespace, "alice"), User("u2", "ns1", "bob"),
                 User("u3", "ns1", "carol")>>,
     orgusers |-> <<OrgUser("ou1", "ns1", "u1", "o1")>>,
     roles |-> <<Role("role1", "admin"), Role("role2", "reader")>>,
     groups |-> <<>>,
     managers |-> <<Manager("m1", "ns2", "mgr", "o2")>>]

\* a store in which nothing has been created yet
BareStore ==
    [BaseStore EXCEPT !.organizations = <<>>, !.projects = <<>>, !.regions = <<>>,
                      !.clusters = <<>>, !.networks = <<>>, !.instances = <<>>,
                      !.identities = <<>>,
                      !.users = <<>>, !.orgusers = <<>>, !.roles = <<>>,
                      !.managers = <<>>]

\* the state RunE starts in, for a store, a command line and a map order
InitWith(s, c, order) ==
    /\ store = s
    /\ store0 = s
    /\ cmd = c
    /\ pick = order
    /\ prev = <<>>
    /\ pc = "start"
    /\ idx = 0
    /\ o = NoOptions
    /\ steps = <<>>
    /\ results = <<>>
    /\ calls = <<>>
    /\ out = <<>>
    /\ err = ""
    /\ printed = ""
    /\ exitCode = -1
    /\ goroutines = 0
    /\ synced = FALSE
    /\ waited = FALSE
    /\ client = FALSE
    /\ now = 0
    /\ tbl = <<>>

(***************************************************************************)
(* Spec: any command of the tree, on a populated and on a bare store.      *)
(***************************************************************************)
RunCommands ==
    {[Command("get kubernetescluster") EXCEPT !.organization = "acme"],
     [Command("get kubernetescluster") EXCEPT !.region = "south"],
     [Command("get network") EXCEPT !.project = "web"],
     [Command("get instance") EXCEPT !.organization = "acme", !.columns = <<"ID", "name">>],
     [Command("get kubernetescluster") EXCEPT !.columns = <<"name", "bogus">>],
     Command("get user"),
     [Command("get user") EXCEPT !.email = "alice"],
     [Command("get sshkey") EXCEPT !.args = <<"alpha">>],
     Command("get sshkey"),
     Command("get openstackidentity"),
     [Command("get openstackidentity") EXCEPT !.args = <<"i1">>],
     [Command("describe kubernetescluster") EXCEPT !.args = <<"beta">>],
     Command("describe kubernetescluster"),
     [Command("describe openstackidentity") EXCEPT !.args = <<"i1">>],
     Command("describe openstackidentity"),
     [Command("create user") EXCEPT !.email = "bob"],
     [Command("create user") EXCEPT !.email = "alice"],
     [Command("create group") EXCEPT !.organization = "acme", !.flagName = "ops",
                                     !.roles = <<"reader", "admin">>,
                                     !.users = <<"bob">>],
     [Command("create group") EXCEPT !.organization = "acme", !.flagName = "ops",
                                     !.roles = <<"admin">>,
                                     !.users = <<"carol", "bob">>],
     [Command("create group") EXCEPT !.organization = "acme", !.flagName = "ops",
                                     !.roles = <<"admin", "owner">>,
                                     !.users = <<"bob">>],
     [Command("create organization") EXCEPT !.flagName = "newco"],
     [Command("create organization") EXCEPT !.flagName = "acme"],
     [Command("connect clustermanager") EXCEPT !.args = <<"m1">>],
     Command("connect clustermanager")}

Init ==
    \E s \in {BaseStore, BareStore} : \E c \in RunCommands :
        InitWith(s, c, <<"c1", "c2">>)

Next == NextRun \/ Poll \/ Tick \/ Expire \/ Provision

Spec == Init /\ [][Next]_vars

(***************************************************************************)
(* Claims about one invocation (Spec).                                     *)
(***************************************************************************)
Returned == pc = "exit" /\ err # "panic: index out of range"

\* the steps RunE of a command goes through
StepsOf(c) == IF HasValidate(c) THEN <<"client", "validate", "execute">>
              ELSE <<"client", "execute">>

RunsInOrder(expected) ==
    /\ IsPrefix(steps, expected)
    /\ \A i \in 1..Len(results) : results[i] = "error" => i = Len(steps)
    /\ Returned /\ err # "" => printed = err /\ exitCode = 1
    /\ Returned /\ err = "" => steps = expected /\ exitCode = 0

\* C1 as stated: every get, describe, create and connect command performs
\* client construction, then flag validation, then execution, in that order;
\* a step that returns an error is the last step, and main prints the error
\* and exits with status 1.
C1_ThreeStepsForEveryCommand == RunsInOrder(<<"client", "validate", "execute">>)

\* C1 amended: the same, except that connect clustermanager has no validation
\* step: its RunE performs client construction and then execution.
C1_StepsInOrder == RunsInOrder(StepsOf(cmd))

C1_Witness ==
    /\ pc = "exit"
    /\ steps = <<"client", "validate">>
    /\ results = <<"ok", "error">>
    /\ printed = err
    /\ exitCode = 1

\* C2: a get or describe command never changes the store and issues only
\* List and Get calls, whether it succeeds or fails.
C2_ReadOnly ==
    IsReadOnly(cmd) =>
        /\ store = store0
        /\ \A i \in 1..Len(calls) : calls[i].verb \in {"List", "Get"}

C2_Witness ==
    /\ pc = "exit"
    /\ IsReadOnly(cmd)
    /\ exitCode = 0
    /\ \E i \in 1..Len(calls) : calls[i].verb = "Get"
    /\ \E i \in 1..Len(calls) : calls[i].verb = "List"

\* a call that failed, other than a NotFound of connect clustermanager's scan
FailedCall(i) ==
    /\ calls[i].res # "ok"
    /\ ~(cmd.name = "connect clustermanager" /\ calls[i].verb = "Get"
         /\ calls[i].res = "NotFound")

\* C7: outside create organization, the first call that fails is the last
\* call of the invocation, which ends with an error: no call is re-issued.
C7_NoRetry ==
    cmd.name # "create organization" =>
        \A i \in 1..Len(calls) :
            FailedCall(i) =>
                /\ i = Len(calls)
                /\ pc = "exit" => exitCode = 1 /\ err # ""

C7_Witness ==
    /\ pc = "exit"
    /\ cmd.name = "create group"
    /\ Len(calls) >= 2
    /\ calls[Len(calls)].res = "error"
    /\ exitCode = 1

\* C8 as stated: Factory.Client starts one background goroutine for the
\* cache and returns a client only after WaitForCacheSync has returned, no
\* call goes through a client before that, and every invocation has started
\* exactly one such goroutine by its end.
C8_ExactlyOneGoroutineEveryInvocation ==
    /\ goroutines <= 1
    /\ waited => synced /\ goroutines = 1
    /\ client => waited /\ goroutines = 1
    /\ calls # <<>> => client /\ waited
    /\ pc = "exit" => goroutines = 1

\* C8 amended: the same, except that the goroutine is started only once
\* Factory.Client has its configuration, scheme and cache: an invocation
\* starts at most one such goroutine, exactly one when it gets that far, and
\* none when it ends over its arguments or over one of those three errors.
C8_OneGoroutineWaitFirst ==
    /\ goroutines <= 1
    /\ waited => synced /\ goroutines = 1
    /\ client => waited /\ goroutines = 1
    /\ calls # <<>> => client /\ waited
    /\ pc = "exit" =>
          goroutines = IF err \in {"invalid arguments", "config error",
                                   "scheme error", "cache error"} THEN 0 ELSE 1

C8_Witness ==
    /\ client
    /\ waited
    /\ goroutines = 1
    /\ Len(calls) >= 1

(***************************************************************************)
(* Claims about the poll loop of create organization.                      *)
(***************************************************************************)
\* the time the program spends is time that passes: the ticker fires, the
\* deadline of the context arrives, and RunE and main run on
FairSpec ==
    /\ Init
    /\ [][Next]_vars
    /\ WF_vars(NextRun)
    /\ WF_vars(Tick)
    /\ WF_vars(Expire)

\* the last call is a Get that returned the created organization, provisioned
ProvisionedGet(cs, o1) ==
    /\ Len(cs) >= 2
    /\ cs[Len(cs)].verb = "Get"
    /\ cs[Len(cs)].kind = "Organization"
    /\ cs[Len(cs)].res = "ok"
    /\ \E i \in 1..(Len(cs) - 1) : cs[i].verb = "Create" /\ cs[i].res = "ok"
    /\ o1 # <<>>
    /\ o1[1].id = NewID
    /\ o1[1].statusNs # ""

\* C5: create organization returns success only when, after its Create
\* succeeded, a Get returned the organization with a non-empty
\* Status.Namespace; a poll that does not see that leaves the loop running,
\* which only the deadline of the context ends otherwise.
C5_SuccessOnlyWhenProvisioned ==
    /\ [](cmd.name = "create organization" /\ pc \in {"returned", "exit"} /\ err = ""
            => ProvisionedGet(calls, out))
    /\ [][pc = "poll" /\ pc' # "poll" =>
            \/ err' = "" /\ ProvisionedGet(calls', out')
            \/ CtxDone /\ err' = "context deadline exceeded" /\ calls' = calls]_vars

C5_Witness ==
    /\ cmd.name = "create organization"
    /\ pc = "exit"
    /\ exitCode = 0
    /\ Len(calls) >= 4
    /\ calls[Len(calls) - 1].verb = "Get"
    /\ ProvisionedGet(calls, out)

\* C6: a create organization invocation that has passed validation comes to
\* its end, and once its Create has gone through it ends in one of two ways:
\* with success on a provisioned organization, or with the error of the
\* context's deadline; the poll loop does not run forever.
C6_CreateOrganizationTerminates ==
    /\ (cmd.name = "create organization" /\ pc = "execute") ~> (pc = "exit")
    /\ (pc = "poll") ~> (pc = "exit")
    /\ [](pc = "exit" /\ cmd.name = "create organization"
             /\ (\E i \in 1..Len(calls) : calls[i].verb = "Create" /\ calls[i].res = "ok")
          => \/ exitCode = 0 /\ ProvisionedGet(calls, out)
             \/ exitCode = 1 /\ err = "context deadline exceeded")

C6_Witness ==
    /\ cmd.name = "create organization"
    /\ pc = "exit"
    /\ err = "context deadline exceeded"
    /\ exitCode = 1
    /\ \E i \in 1..Len(calls) : calls[i].verb = "Get"

(***************************************************************************)
(* SpecKC: get kubernetescluster over every small list of clusters and     *)
(* every combination of the scoping flags.                                 *)
(***************************************************************************)
ClusterID(i) == CASE i = 1 -> "c1" [] i = 2 -> "c2" [] i = 3 -> "c3" [] OTHER -> "c4"

ClusterPlaces == {"ns1", "ns2"} \X {"o1", "o2"} \X {"p1", "p2"} \X {"r1", "r2"}

ClusterLists ==
    UNION {[1..n -> ClusterPlaces] : n \in 0..MaxClusters}

ClustersOf(places) ==
    [i \in 1..Len(places) |->
        Cluster(ClusterID(i), places[i][1], ClusterID(i), places[i][2],
                places[i][3], places[i][4])]

InitKC ==
    \E places \in ClusterLists, organization \in {"", "acme"},
       project \in {"", "web"}, region \in {"", "north"} :
        InitWith([BaseStore EXCEPT !.clusters = ClustersOf(places)],
                 [Command("get kubernetescluster") EXCEPT
                      !.organization = organization, !.project = project,
                      !.region = region],
                 <<"c1", "c2">>)

NextKC == NextRun

SpecKC == InitKC /\ [][NextKC]_vars

\* the IDs of the objects of a list that carry a name label
IDsNamed(items, ns, name) ==
    {items[i].id : i \in {j \in 1..Len(items) :
                            items[j].name = name /\ (ns # "" => items[j].ns = ns)}}

\* the cluster is one the flags of the command line ask for
Asked(x) ==
    /\ x.ns \in Range(store0.namespaces)
    /\ cmd.organization # "" =>
          x.org \in IDsNamed(store0.organizations, IdentityNamespace, cmd.organization)
    /\ cmd.project # "" => x.project \in IDsNamed(store0.projects, "", cmd.project)
    /\ cmd.region # "" =>
          x.regionID \in IDsNamed(store0.regions, RegionNamespace, cmd.region)

\* where a row's cluster stands: its namespace's place in the namespace list,
\* then its own place in the store's list
PlaceOf(row) ==
    LET n == CHOOSE i \in 1..Len(store0.namespaces) : store0.namespaces[i] = row.ns
        k == CHOOSE i \in 1..Len(store0.clusters) : store0.clusters[i].id = row.id
    IN  n * (Len(store0.clusters) + 1) + k

\* C3: get kubernetescluster prints one row for every cluster of a listed
\* namespace that matches the organization, project and region flags given,
\* no row for any other cluster, no row twice, in namespace-then-list order.
C3_OneRowPerMatchingCluster ==
    pc = "exit" /\ cmd.name = "get kubernetescluster" /\ exitCode = 0 =>
        /\ \A i \in 1..Len(out) : \E k \in 1..Len(store0.clusters) :
              /\ out[i].id = store0.clusters[k].id
              /\ out[i].ns = store0.clusters[k].ns
        /\ \A k \in 1..Len(store0.clusters) :
              Cardinality({i \in 1..Len(out) : out[i].id = store0.clusters[k].id})
                  = IF Asked(store0.clusters[k]) THEN 1 ELSE 0
        /\ \A i, j \in 1..Len(out) : i < j => PlaceOf(out[i]) < PlaceOf(out[j])

C3_Witness ==
    /\ pc = "exit"
    /\ cmd.name = "get kubernetescluster"
    /\ exitCode = 0
    /\ cmd.organization # "" /\ cmd.project # "" /\ cmd.region # ""
    /\ Len(store0.clusters) = 2
    /\ store0.clusters[1].regionID = "r2"
    /\ Len(out) = 1
    /\ out[1].id = "c2"

(***************************************************************************)
(* SpecNames: the commands that show organization, project and region      *)
(* names, over stores in which a referenced object has a name label, has   *)
(* an empty one, or does not exist.                                        *)
(***************************************************************************)
\* one object, no object, or the object with an empty name label
Variants(x) == {<<x>>, <<[x EXCEPT !.name = ""]>>, <<>>}

NameCommands ==
    {Command("get kubernetescluster"), Command("get network"), Command("get user"),
     [Command("describe kubernetescluster") EXCEPT !.args = <<"c1">>]}

InitNames ==
    \E orgs \in Variants(Org("o1", "acme", "ns1")),
       projects \in Variants(Project("p1", "ns1", "web", "o1")),
       regions \in Variants(Region("r1", "north")),
       users \in {<<>>, <<User("u1", IdentityNamespace, "alice")>>},
       c \in NameCommands :
        InitWith([BaseStore EXCEPT
                      !.organizations = orgs, !.projects = projects,
                      !.regions = regions,
                      !.users = users,
                      !.clusters = <<Cluster("c1", "ns1", "alpha", "o1", "p1", "r1")>>],
                 c, <<"c1", "c2">>)

NextNames == NextRun

SpecNames == InitNames /\ [][NextNames]_vars

\* the object of a list with that ID, <<>> when there is none
Referenced(items, ns, id) ==
    SelectSeq(items, LAMBDA x : x.id = id /\ (ns # "" => x.ns = ns))

\* the name label when the reference resolves to a non-empty one, else the ID
NameLabelOrID(items, ns, id) ==
    LET r == Referenced(items, ns, id)
    IN  IF r # <<>> /\ r[1].name # "" THEN r[1].name ELSE id

\* the resource a row was printed for
ResourceOf(items, row) == Referenced(items, row.ns, row.id)[1]

\* the client was built and every call it was given went through
NoCallFailed == client /\ \A i \in 1..Len(calls) : calls[i].res = "ok"

\* the rows of a cluster or network command carry resolved names or IDs
ShowsNamesOrIDs(items, RegionOf(_)) ==
    /\ NoCallFailed => exitCode = 0 /\ Len(out) = Len(items)
    /\ \A i \in 1..Len(out) :
          LET x == ResourceOf(items, out[i])
          IN  /\ out[i].organization =
                    NameLabelOrID(store0.organizations, IdentityNamespace, x.org)
              /\ out[i].project = NameLabelOrID(store0.projects, "", x.project)
              /\ out[i].region =
                    NameLabelOrID(store0.regions, RegionNamespace, RegionOf(x))

\* get user prints the organization's name label as it is, and fails when an
\* organization user refers to a user or an organization that is not there
GetUserShowsNameLabel ==
    LET Dangling(ou) ==
            \/ Referenced(store0.users, "", ou.user) = <<>>
            \/ Referenced(store0.organizations, "", ou.org) = <<>>
        dangling == \E ou \in Range(store0.orgusers) : Dangling(ou)
    IN  /\ NoCallFailed /\ dangling => exitCode = 1 /\ err = "consistency error"
        /\ NoCallFailed /\ ~dangling => exitCode = 0 /\ Len(out) = Len(store0.orgusers)
        /\ \A i \in 1..Len(out) :
              out[i].organization =
                  Referenced(store0.organizations, "",
                             ResourceOf(store0.orgusers, out[i]).org)[1].name

NamesOf(c) ==
    CASE c.name = "get kubernetescluster" ->
            ShowsNamesOrIDs(store0.clusters, LAMBDA x : x.regionID)
      [] c.name = "describe kubernetescluster" ->
            ShowsNamesOrIDs(store0.clusters, LAMBDA x : x.regionID)
      [] c.name = "get network" ->
            ShowsNamesOrIDs(store0.networks, LAMBDA x : x.region)
      [] OTHER -> TRUE

IdentityID(i) == CASE i = 1 -> "i1" [] i = 2 -> "i2" [] i = 3 -> "i3" [] OTHER -> "i4"
KeyOf(i) == CASE i = 1 -> "key1" [] i = 2 -> "key2" [] i = 3 -> "key3" [] OTHER -> "key4"

SSHClusterNames == {"alpha", "c2"}
SSHLabels == {<<ClusterPrefix, "c1">>, <<ClusterPrefix, "c2">>, <<"c1">>}
SSHIdentifiers == {"alpha", "c2", "zeta"}

SSHClusters(names) ==
    [i \in 1..Len(names) |-> Cluster(ClusterID(i), "ns1", names[i], "o1", "p1", "r1")]

\* an identity outside the region namespace, then those inside it
SSHIdentities(labels) ==
    <<Identity("i0", "ns1", <<ClusterPrefix, "c1">>, "key0")>>
    \o [i \in 1..Len(labels) |->
           Identity(IdentityID(i), RegionNamespace, labels[i], KeyOf(i))]

InitSSH ==
    \E names \in UNION {[1..n -> SSHClusterNames] : n \in 0..MaxClusters},
       labels \in UNION {[1..n -> SSHLabels] : n \in 0..MaxIdentities},
       identifier \in SSHIdentifiers,
       order \in Orders({ClusterID(i) : i \in 1..MaxClusters}) :
        InitWith([BaseStore EXCEPT !.clusters = SSHClusters(names),
                                   !.identities = SSHIdentities(labels)],
                 [Command("get sshkey") EXCEPT !.args = <<identifier>>],
                 order)

NextSSH == NextRun \/ Again

SpecSSH == InitSSH /\ [][NextSSH]_vars

\* an outcome the store and the identifier decide, not a failure around them
DataOutcome(e) == e \notin {"api error", "client error", "config error",
                            "scheme error", "cache error"}

\* C9: two invocations of get sshkey on the same store with the same
\* identifier end alike: the same cluster, the same key, or the same error.
C9_SameOutcomeEveryInvocation ==
    pc = "exit" /\ prev # <<>> /\ DataOutcome(err) /\ DataOutcome(prev[1].err) =>
        prev[1] = [out |-> out, err |-> err]

\* the IDs the identifier stands for: those of the clusters it names, else
\* that of the cluster it is the ID of
ClustersMeant(identifier) ==
    LET named == {x \in Range(store0.clusters) : x.name = identifier}
        known == {x \in Range(store0.clusters) : x.id = identifier}
    IN  IF named # {} THEN {x.id : x \in named} ELSE {x.id : x \in known}

\* the identities of the region namespace that belong to a cluster
IdentitiesOf(cid) ==
    {x \in Range(store0.identities) :
        /\ x.ns = RegionNamespace
        /\ x.label \in {<<ClusterPrefix, cid>>, <<cid>>}}

\* C10: get sshkey takes a cluster's name or ID, a name before an ID, and
\* prints the key of an identity of the region namespace whose name label
\* without the prefix is that cluster's ID; with no such cluster or no such
\* identity it returns a validation error and prints nothing.
C10_KeyOfResolvedCluster ==
    pc = "exit" /\ cmd.name = "get sshkey" /\ NoCallFailed =>
        LET meant == ClustersMeant(cmd.args[1])
        IN  /\ meant = {} =>
                  exitCode = 1 /\ err = "validation: cluster not found" /\ out = <<>>
            /\ meant # {} =>
                  \E cid \in meant :
                      IF IdentitiesOf(cid) = {}
                      THEN exitCode = 1 /\ err = NoIdentityFor(cid) /\ out = <<>>
                      ELSE /\ exitCode = 0
                           /\ out.cluster = cid
                           /\ \E x \in IdentitiesOf(cid) : out.key = x.key

C10_Witness ==
    /\ pc = "exit"
    /\ cmd.args = <<"c2">>
    /\ Len(store0.clusters) = 2
    /\ store0.clusters[1].name = "c2"
    /\ store0.clusters[2].name = "alpha"
    /\ exitCode = 0
    /\ out.cluster = "c1"
    /\ out.key = "key2"

(***************************************************************************)
(* SpecOSI: get openstackidentity with and without an argument, over small *)
(* lists of identities whose name label names a cluster or is an ID.       *)
(***************************************************************************)
OSILabels == {<<ClusterPrefix, "c1">>, <<"i1">>, <<"i2">>}
OSIArgs == {<<>>, <<"i1">>, <<"i2">>, <<"zeta">>}

\* the identities come back from List in any order of their IDs
OSIIdentities(labels, reversed) ==
    LET n == Len(labels)
    IN  [i \in 1..n |->
            LET k == IF reversed THEN n + 1 - i ELSE i
            IN  Identity(IdentityID(k), RegionNamespace, labels[k], KeyOf(k))]

InitOSI ==
    \E labels \in UNION {[1..n -> OSILabels] : n \in 0..MaxIdentities},
       reversed \in BOOLEAN, args \in OSIArgs :
        InitWith([BaseStore EXCEPT !.identities = OSIIdentities(labels, reversed)],
                 [Command("get openstackidentity") EXCEPT !.args = args],
                 <<"c1", "c2">>)

NextOSI == NextRun

SpecOSI == InitOSI /\ [][NextOSI]_vars

\* C11: get openstackidentity with an argument that passes validation
\* prints exactly one row, the row of the identity validation found: the
\* identity of the region namespace whose ID is the argument.
C11_OneRowOfValidatedIdentity ==
    pc = "exit" /\ cmd.name = "get openstackidentity" /\ Len(cmd.args) > 0
        /\ exitCode = 0 =>
        /\ Len(out) = 1
        /\ out[1].identityID = cmd.args[1]

(***************************************************************************)
(* SpecCols: get kubernetescluster, get network and get instance with a    *)
(* --columns list typed in any letter case, of known and unknown names.    *)
(***************************************************************************)
MaxColumns == 2

\* the column names typed after --columns
ColumnNames == {"name", "id", "region", "version", "prefix", "flavor",
                "Name", "REGION", "bogus", "Bogus"}

ColumnCommands ==
    {Command("get kubernetescluster"), Command("get network"), Command("get instance")}

InitCols ==
    \E c \in ColumnCommands,
       columns \in UNION {[1..n -> ColumnNames] : n \in 1..MaxColumns},
       organization \in {"", "acme", "nope"} :
        InitWith(BaseStore,
                 [c EXCEPT !.columns = columns, !.organization = organization],
                 <<"c1", "c2">>)

NextCols == NextRun

SpecCols == InitCols /\ [][NextCols]_vars

\* the kind of resource a command lists
ResourceKind(c) ==
    CASE c.name = "get kubernetescluster" -> "KubernetesCluster"
      [] c.name = "get network" -> "Network"
      [] c.name = "get instance" -> "ComputeInstance"
      [] OTHER -> ""

\* the resources of that kind in the store
ResourcesOf(s, c) ==
    CASE c.name = "get kubernetescluster" -> s.clusters
      [] c.name = "get network" -> s.networks
      [] c.name = "get instance" -> s.instances
      [] OTHER -> <<>>

\* a column name that, whatever its letter case, is none of the available
LowerCase(col) ==
    IF col = "Name" THEN "name" ELSE IF col = "REGION" THEN "region"
    ELSE IF col = "Bogus" THEN "bogus" ELSE col
Available(c, col) == \E k \in 1..Len(allColumns(c.name)) : allColumns(c.name)[k] = LowerCase(col)
FirstUnknown(c) == IndexFunc(c.columns, LAMBDA col : ~Available(c, col))

\* C12: a --columns list with a name outside the available columns is
\* rejected by validation: the invocation fails, the resource kind is never
\* listed, no table is printed, and once the flag validators have passed
\* the error is the one that names the first unknown column.
C12_UnknownColumnRejected ==
    HasColumns(cmd) /\ FirstUnknown(cmd) # 0 =>
        /\ tbl = <<>>
        /\ out = <<>>
        /\ "execute" \notin Range(steps)
        /\ \A i \in 1..Len(calls) :
              ~(calls[i].verb = "List" /\ calls[i].kind = ResourceKind(cmd))
        /\ pc = "exit" => exitCode = 1
        /\ pc = "exit" /\ NoCallFailed /\ ScopeValidate(store0, cmd, TRUE, TRUE).err = "" =>
              /\ steps = <<"client", "validate">>
              /\ err = UnknownColumn(cmd.columns[FirstUnknown(cmd)])
              /\ printed = err

C12_Witness ==
    /\ pc = "exit" /\ cmd.name = "get instance" /\ cmd.organization = "acme"
    /\ cmd.columns = <<"Name", "prefix">>
    /\ err = UnknownColumn("prefix") /\ exitCode = 1 /\ tbl = <<>>

\* the value a resource has for a column
ValueOf(s, c, x, col) ==
    CASE col = "name" -> x.name
      [] col = "id" -> x.id
      [] col = "version" -> x.version
      [] col = "prefix" -> x.prefix
      [] col = "flavor" -> x.flavorID
      [] col = "region" ->
            LET rid == IF c.name = "get kubernetescluster" THEN x.regionID ELSE x.region
                rs == SelectSeq(s.regions, LAMBDA r : r.id = rid)
            IN  IF rs # <<>> /\ rs[1].name # "" THEN rs[1].name ELSE rid

\* C13: an accepted --columns list is rendered with one header per requested
\* column, in the requested order and equal to the header text of that
\* column, and every row holds the value of its resource for that column
\* at the same position; no header and no value of an accepted column is
\* empty.
C13_AcceptedColumnsRendered ==
    pc = "exit" /\ HasColumns(cmd) /\ exitCode = 0 =>
        /\ Len(tbl.headers) = Len(cmd.columns)
        /\ \A k \in 1..Len(cmd.columns) :
              /\ tbl.headers[k] = HeaderText(LowerCase(cmd.columns[k]))
              /\ tbl.headers[k] # ""
              /\ \A i \in 1..Len(tbl.rows) :
                    /\ Len(tbl.rows[i]) = Len(cmd.columns)
                    /\ \E x \in Range(ResourcesOf(store0, cmd)) :
                          /\ x.id = out[i].id
                          /\ tbl.rows[i][k] =
                                ValueOf(store0, cmd, x, LowerCase(cmd.columns[k]))
                    /\ tbl.rows[i][k] # ""

(***************************************************************************)
(* SpecOrg: create organization over stores that hold, or do not hold, an  *)
(* organization of the requested name, in the identity namespace or in     *)
(* another one.                                                            *)
(***************************************************************************)
MaxOrganizations == 2

OrganizationChoices ==
    {Org("o1", "acme", "ns1"), Org("o2", "", "ns2"), Org("o3", "newco", "ns3"),
     [Org("o4", "acme", "ns4") EXCEPT !.ns = "ns1"]}

OrganizationLists ==
    {orgs \in UNION {[1..n -> OrganizationChoices] : n \in 0..MaxOrganizations} :
        \A i, j \in 1..Len(orgs) : orgs[i].id = orgs[j].id => i = j}

InitOrg ==
    \E orgs \in OrganizationLists, name \in {"acme", "newco"} :
        InitWith([BaseStore EXCEPT !.organizations = orgs],
                 [Command("create organization") EXCEPT !.flagName = name],
                 <<"c1", "c2">>)

NextOrg == NextRun \/ Poll \/ Tick \/ Expire \/ Provision

SpecOrg == InitOrg /\ [][NextOrg]_vars

\* the organizations of the identity namespace that carry the requested name
OrganizationNamesakes ==
    {x \in Range(store0.organizations) :
        x.ns = IdentityNamespace /\ x.name = cmd.flagName}

CreateIssued(kind) ==
    \E i \in 1..Len(calls) : calls[i].verb = "Create" /\ calls[i].kind = kind

\* C14: create organization issues its Create call only after the List of
\* validation returned no organization of the identity namespace with the
\* requested name label; when such an organization exists the invocation
\* ends with the validation error and nothing is created.
C14_CreateOnlyWithoutNamesake ==
    cmd.name = "create organization" =>
        /\ \A i \in 1..Len(calls) :
              calls[i].verb = "Create" =>
                  /\ OrganizationNamesakes = {}
                  /\ \E j \in 1..(i - 1) :
                        calls[j] = ListCall("Organization", IdentityNamespace)
        /\ OrganizationNamesakes # {} =>
              /\ ~CreateIssued("Organization")
              /\ store = store0
              /\ pc = "exit" => exitCode = 1
              /\ pc = "exit" /\ NoCallFailed =>
                    /\ err = "validation: expected no organizations to exist"
                    /\ steps = <<"client", "validate">>

C14_Witness ==
    /\ pc = "exit" /\ cmd.name = "create organization" /\ cmd.flagName = "acme"
    /\ OrganizationNamesakes # {} /\ NoCallFailed
    /\ err = "validation: expected no organizations to exist"
    /\ store = store0

(***************************************************************************)
(* SpecGroup: create group over every list of --role and --user values,    *)
(* with groups of the requested name already in the organization's         *)
(* namespace or in the identity namespace.                                 *)
(***************************************************************************)
MaxRoles == 2
MaxUsers == 3

\* --role values: owner is the name of no role of the identity namespace
RoleFlags == UNION {[1..n -> {"admin", "reader", "owner"}] : n \in 1..MaxRoles}

\* --user values: zoe is the subject of no user
UserFlags == UNION {[1..n -> {"bob", "carol", "zoe"}] : n \in 1..MaxUsers}

GroupLists ==
    {<<>>, <<Group("g1", "ns1", "ops")>>, <<Group("g2", IdentityNamespace, "ops")>>,
     <<Group("g3", "ns1", "dev")>>}

\* the base store with a role named owner outside the identity namespace
GroupStore(groups) ==
    [BaseStore EXCEPT !.groups = groups,
                      !.roles = Append(@, [Role("role3", "owner") EXCEPT !.ns = "ns1"])]

InitGroup ==
    \E roles \in RoleFlags, users \in UserFlags, groups \in GroupLists,
       organization \in {"acme", "nope"} :
        InitWith(GroupStore(groups),
                 [Command("create group") EXCEPT
                      !.organization = organization, !.flagName = "ops",
                      !.roles = roles, !.users = users],
                 <<"c1", "c2">>)

NextGroup == NextRun

SpecGroup == InitGroup /\ [][NextGroup]_vars

\* the organization the --organization flag names, when it is the only one
OrganizationMeant ==
    {x \in Range(store0.organizations) :
        /\ x.ns = IdentityNamespace /\ x.name = cmd.organization
        /\ \A y \in Range(store0.organizations) :
              y.ns = IdentityNamespace /\ y.name = cmd.organization => y = x}

\* C15: when a group with the requested name label already exists in the
\* namespace of the organization the new group would be created in,
\* validation returns an error and no group is created.
C15_ExistingGroupRejected ==
    cmd.name = "create group" =>
        \A x \in OrganizationMeant :
            (\E g \in Range(store0.groups) :
                g.ns = x.statusNs /\ g.name = cmd.flagName) =>
                    /\ ~CreateIssued("Group")
                    /\ store = store0
                    /\ pc = "exit" => exitCode # 0

\* the group a successful create group has created
GroupCreated == CHOOSE g \in Range(store.groups) : g.id = NewID

SucceededGroup ==
    /\ pc = "exit" /\ cmd.name = "create group" /\ exitCode = 0
    /\ \E g \in Range(store.groups) : g.id = NewID

\* C16: after a successful create group the UserIDs of the created group
\* hold exactly one entry per distinct --user value, each the ID of the user
\* whose subject is that value, with no empty, missing or extra entry; and
\* no run of the command indexes the slice out of range, however many
\* distinct roles and users are given.
C16_OneUserIDPerUser ==
    cmd.name = "create group" =>
        /\ err # "panic: index out of range"
        /\ SucceededGroup =>
              LET ids == GroupCreated.userIDs
              IN  /\ Len(ids) = Cardinality(Range(cmd.users))
                  /\ \A k \in 1..Len(ids) : ids[k] # ""
                  /\ \A subject \in Range(cmd.users) :
                        \E k \in 1..Len(ids) :
                            \E u \in Range(store0.users) :
                                u.subject = subject /\ u.id = ids[k]

\* the same for runs that give as many distinct users as distinct roles
C16_WhenAsManyUsersAsRoles ==
    Cardinality(Range(cmd.users)) = Cardinality(Range(cmd.roles)) => C16_OneUserIDPerUser

\* C17: after a successful create group the RoleIDs of the created group
\* hold exactly one entry per distinct --role value, duplicates removed,
\* each the ID of a role of the identity namespace whose name label is
\* that value.
C17_OneRoleIDPerRole ==
    SucceededGroup =>
        LET ids == GroupCreated.roleIDs
        IN  /\ Len(ids) = Cardinality(Range(cmd.roles))
            /\ \A i, j \in 1..Len(ids) : ids[i] = ids[j] => i = j
            /\ \A k \in 1..Len(ids) :
                  \E r \in Range(store0.roles) :
                      /\ r.id = ids[k] /\ r.ns = IdentityNamespace
                      /\ r.name \in Range(cmd.roles)
            /\ \A name \in Range(cmd.roles) :
                  \E k \in 1..Len(ids) :
                      \E r \in Range(store0.roles) :
                          /\ r.id = ids[k] /\ r.ns = IdentityNamespace
                          /\ r.name = name

C17_Witness ==
    /\ SucceededGroup
    /\ cmd.roles = <<"reader", "reader">>
    /\ GroupCreated.roleIDs = <<"role2">>

\* the kinds create group has listed, in the order of its calls
KindsListed == [i \in 1..Len(SelectSeq(calls, LAMBDA x : x.verb = "List")) |->
                   SelectSeq(calls, LAMBDA x : x.verb = "List")[i].kind]

MissingRole ==
    \E name \in Range(cmd.roles) :
        ~\E r \in Range(store0.roles) : r.ns = IdentityNamespace /\ r.name = name

MissingUser ==
    \E x \in OrganizationMeant :
        \E subject \in Range(cmd.users) :
            ~\E u \in Range(store0.users) : u.ns = x.statusNs /\ u.subject = subject

GroupInIdentityNamespace ==
    \E g \in Range(store0.groups) : g.ns = IdentityNamespace /\ g.name = cmd.flagName

\* the error and the lists of a run whose first failing validator is known
FirstFailure ==
    IF OrganizationMeant = {}
    THEN [err |-> "validation: unable to find organization", kinds |-> <<"Organization">>]
    ELSE IF GroupInIdentityNamespace
    THEN [err |-> "validation: expected no groups to exist",
          kinds |-> <<"Organization", "Group">>]
    ELSE IF MissingRole
    THEN [err |-> "validation: unable to find role",
          kinds |-> <<"Organization", "Group", "Role">>]
    ELSE [err |-> "validation: unable to find user",
          kinds |-> <<"Organization", "Group", "Role", "User">>]

\* C18: create group validates the organization, the group name, the roles
\* and the users in that order and stops at the first validator that
\* fails; an organization that does not resolve, a missing role or a
\* missing user ends the invocation with that validator's error, and no
\* Create is issued.
C18_ValidatesInOrderAndStops ==
    cmd.name = "create group" =>
        /\ IsPrefix(KindsListed, <<"Organization", "Group", "Role", "User">>)
        /\ OrganizationMeant = {} \/ MissingRole \/ MissingUser =>
              /\ ~CreateIssued("Group")
              /\ store = store0
              /\ pc = "exit" /\ NoCallFailed =>
                    /\ exitCode = 1
                    /\ err = FirstFailure.err
                    /\ KindsListed = FirstFailure.kinds
                    /\ steps = <<"client", "validate">>

\* the same for runs that give no more distinct users than roles
C18_WhenUsersFit ==
    Cardinality(Range(cmd.users)) <= Cardinality(Range(cmd.roles))
        => C18_ValidatesInOrderAndStops

(***************************************************************************)
(* SpecScope: get kubernetescluster with --organization and --project over *)
(* stores in which the names resolve to none, one or several objects.      *)
(***************************************************************************)
MaxProjects == 2

ScopeOrganizations ==
    {Org("o1", "acme", "ns1"), Org("o2", "acme", "ns2"), Org("o3", "acme", ""),
     [Org("o4", "acme", "ns4") EXCEPT !.ns = "ns1"], Org("o5", "other", "ns5")}

ScopeProjects ==
    {Project("p1", "ns1", "web", "o1"), Project("p2", "ns2", "web", "o2"),
     Project("p3", "ns1", "api", "o1"),
     [Project("p4", "ns1", "web", "o1") EXCEPT !.statusNs = ""]}

DistinctLists(S, n) ==
    {xs \in UNION {[1..k -> S] : k \in 0..n} :
        \A i, j \in 1..Len(xs) : xs[i].id = xs[j].id => i = j}

InitScope ==
    \E orgs \in DistinctLists(ScopeOrganizations, MaxOrganizations),
       projects \in DistinctLists(ScopeProjects, MaxProjects),
       organization \in {"", "acme", "nope"}, project \in {"", "web"} :
        InitWith([BaseStore EXCEPT !.organizations = orgs, !.projects = projects],
                 [Command("get kubernetescluster") EXCEPT
                      !.organization = organization, !.project = project],
                 <<"c1", "c2">>)

NextScope == NextRun

SpecScope == InitScope /\ [][NextScope]_vars

\* the organizations of the identity namespace that carry the flag's name
OrganizationsNamed ==
    {x \in Range(store0.organizations) :
        x.ns = IdentityNamespace /\ x.name = cmd.organization}

OrganizationResolves ==
    /\ Cardinality(OrganizationsNamed) = 1
    /\ \A x \in OrganizationsNamed : x.statusNs # ""

OrganizationErrors ==
    {"validation: unable to find organization",
     "validation: unable to find organization namespace"}

InValidate == steps = <<"client", "validate">>

Listed(kind) == \E i \in 1..Len(calls) : calls[i].verb = "List" /\ calls[i].kind = kind

\* C19: validation of --organization succeeds only if exactly one
\* organization of the identity namespace carries the name label and has a
\* non-empty Status.Namespace; with none, several, or an empty namespace
\* the invocation ends with a validation error before execute; with an
\* empty flag nothing is looked up and the command filters by no
\* organization.
C19_OrganizationResolvesOrFails ==
    cmd.name = "get kubernetescluster" =>
        /\ cmd.organization # "" /\ "execute" \in Range(steps) =>
              /\ OrganizationResolves
              /\ o.organization # <<>> /\ o.organization[1] \in OrganizationsNamed
        /\ cmd.organization # "" /\ ~OrganizationResolves =>
              /\ "execute" \notin Range(steps)
              /\ out = <<>>
              /\ pc = "exit" => exitCode = 1
              /\ pc = "exit" /\ NoCallFailed =>
                    /\ err \in OrganizationErrors
                    /\ calls = <<ListCall("Organization", IdentityNamespace)>>
        /\ cmd.organization # "" /\ OrganizationResolves /\ pc = "exit" /\ NoCallFailed =>
              err \notin OrganizationErrors
        /\ cmd.organization = "" =>
              /\ InValidate => ~Listed("Organization")
              /\ "execute" \in Range(steps) => o.organization = <<>>
              /\ pc = "exit" /\ exitCode = 0 /\ cmd.project = "" =>
                    Len(out) = Len(store0.clusters)

C19_Witness ==
    /\ pc = "exit" /\ cmd.organization = "acme" /\ NoCallFailed
    /\ Cardinality(OrganizationsNamed) = 2
    /\ err = "validation: unable to find organization"
    /\ steps = <<"client", "validate">>

\* the projects the --project flag can mean, given the organization resolved
ProjectsNamed ==
    {x \in Range(store0.projects) :
        /\ x.name = cmd.project
        /\ cmd.organization # "" => \E y \in OrganizationsNamed : x.org = y.id}

ProjectResolves ==
    /\ cmd.organization # "" => OrganizationResolves
    /\ Cardinality(ProjectsNamed) = 1
    /\ \A x \in ProjectsNamed : x.statusNs # ""

\* C20: the organization flag is validated before the project flag; with
\* both flags the project resolved is the only project that carries the
\* name label and the resolved organization's ID as organization label;
\* with --project alone the name must be that of one project across all
\* organizations, and a name shared by projects of two organizations is a
\* validation error.
C20_ProjectScopedByOrganization ==
    cmd.name = "get kubernetescluster" /\ cmd.project # "" =>
        /\ InValidate =>
              /\ IsPrefix(KindsListed,
                           IF cmd.organization # "" THEN <<"Organization", "Project">>
                           ELSE <<"Project">>)
              /\ cmd.organization # "" /\ ~OrganizationResolves => ~Listed("Project")
        /\ "execute" \in Range(steps) =>
              /\ ProjectResolves
              /\ o.project # <<>> /\ o.project[1] \in ProjectsNamed
              /\ cmd.organization # "" => o.project[1].org = o.organization[1].id
        /\ ProjectResolves /\ pc = "exit" /\ NoCallFailed => exitCode = 0
        /\ ~ProjectResolves =>
              /\ "execute" \notin Range(steps)
              /\ pc = "exit" => exitCode = 1
              /\ pc = "exit" /\ NoCallFailed /\ (cmd.organization # "" => OrganizationResolves) =>
                    err \in {"validation: unable to find project",
                              "validation: unable to find project namespace"}

C20_Witness ==
    /\ pc = "exit" /\ exitCode = 0 /\ cmd.organization = "acme" /\ cmd.project = "web"
    /\ \E x, y \in Range(store0.projects) : x.name = "web" /\ y.name = "web" /\ x.org # y.org
    /\ o.project[1].id = "p1"

C20_WitnessShared ==
    /\ pc = "exit" /\ exitCode = 1 /\ cmd.organization = "" /\ cmd.project = "web"
    /\ \E x, y \in Range(store0.projects) : x.name = "web" /\ y.name = "web" /\ x.org # y.org
    /\ err = "validation: unable to find project"

====
